---- MODULE Spec2Model ----
(***************************************************************************)
(* A model of perclearn/utils.py: 1/f noise synthesis (create_2D_noise),   *)
(* range rescaling (scale_2D), circular-mask composition                   *)
(* (create_composition) and dataset assembly (create_new_dataset with      *)
(* rotate_image).  The module has no state of its own besides numpy's      *)
(* process-wide random source, so the state machine is a call of one of the *)
(* entry points: Init picks the entry point and its arguments, one action  *)
(* per function runs its body (create_new_dataset: one action per loop     *)
(* iteration and one for the return).                                      *)
(***************************************************************************)
EXTENDS Integers, Sequences, FiniteSets, TLC

VARIABLES
    fn,                 \* the entry point that was called
    pc,                 \* of each run: "call", "loop" (create_new_dataset), "done" (returned), "raised"
    exc,                \* of each run: the exception type that ended the call, "" when none
    ret,                \* the returned value of each run, None before the return
    data, scale_range,                          \* scale_2D's arguments
    dim_array, beta, u, v, S_f,                 \* create_2D_noise's arguments and locals
    input_image, background_image,              \* create_composition's arguments ...
    x_offset, y_offset, center, radius,
    dataset, offsets, rotate, degree,           \* create_new_dataset's arguments ...
    i, new_dataset, rng                         \* ... its loop index, its output, numpy's random source

vars == <<fn, pc, exc, ret, data, scale_range, dim_array, beta, u, v, S_f,
          input_image, background_image, x_offset, y_offset, center, radius,
          dataset, offsets, rotate, degree, i, new_dataset, rng>>

scaleVars == <<data, scale_range>>
noiseVars == <<dim_array, beta, u, v, S_f>>
compVars  == <<input_image, background_image, x_offset, y_offset, center, radius>>
dsVars    == <<dataset, offsets, rotate, degree, i, new_dataset>>

None == "None"       \* the value of a variable the call does not use, or not yet set
Unset == <<>>        \* Python's None as the value of an optional argument; <<x>> is the value x

(***************************************************************************)
(* Bounds of the model.                                                    *)
(***************************************************************************)
MaxCells  == 4      \* scale_2D: fields of at most this many cells
MaxVal    == 1      \* scale_2D: cell values -1 .. MaxVal
MaxDim    == 4      \* create_2D_noise: each component of dim_array in 1 .. MaxDim
MaxSide   == 3      \* create_composition: input_image is w x h, w and h in 1 .. MaxSide
MaxBg     == 3      \* create_composition: background rows, columns in MaxBg-1 .. MaxBg
MaxOffset == 3      \* create_composition: x_offset, y_offset in 0 .. MaxOffset
MaxRadius == 3      \* create_composition: radius in 0 .. MaxRadius, or unset
MaxRows   == 2      \* create_new_dataset: M in 0 .. MaxRows
MaxImX    == 2      \* create_new_dataset: image sides 1 .. MaxImX, and 28
MaxSeed   == 2      \* the random source starts in a state 0 .. MaxSeed
SqrtScale == 100    \* np.sqrt rounds its result down to a multiple of 1/SqrtScale

(***************************************************************************)
(* float64 values.  A value is a pair <<n, d>> with d >= 0: the rational   *)
(* n/d in lowest terms when d > 0, and the IEEE specials when d = 0:       *)
(* <<1,0>> is inf, <<-1,0>> is -inf, <<0,0>> is nan.  Arithmetic is exact  *)
(* on the rationals (rounding is left out) and follows IEEE on the         *)
(* specials: x/0 is +-inf, 0/0 is nan, inf-inf is nan, 0*inf is nan.       *)
(***************************************************************************)
Abs(a) == IF a < 0 THEN -a ELSE a
Sgn(a) == IF a < 0 THEN -1 ELSE IF a > 0 THEN 1 ELSE 0

RECURSIVE GCD(_, _)
GCD(a, b) == IF b = 0 THEN a ELSE GCD(b, a % b)

Norm(n, d) ==
    IF d = 0 THEN <<Sgn(n), 0>>
    ELSE LET g == GCD(Abs(n), Abs(d))
         IN  <<(Sgn(d) * n) \div g, Abs(d) \div g>>

NaN      == <<0, 0>>
Inf      == <<1, 0>>
F(k)     == <<k, 1>>
Zero     == F(0)
FNeg(x)  == <<-x[1], x[2]>>
FAdd(x, y) ==
    IF x[2] = 0 /\ y[2] = 0 THEN (IF x = y THEN x ELSE NaN)
    ELSE Norm(x[1] * y[2] + y[1] * x[2], x[2] * y[2])
FSub(x, y) == FAdd(x, FNeg(y))
FMul(x, y) == Norm(x[1] * y[1], x[2] * y[2])
FInv(y)    == Norm(IF y[1] < 0 THEN -y[2] ELSE y[2], Abs(y[1]))
FDiv(x, y) == FMul(x, FInv(y))
FLe(x, y)  == x # NaN /\ y # NaN /\ x[1] * y[2] <= y[1] * x[2]
FLt(x, y)  == FLe(x, y) /\ x # y

\* np.min / np.max of a non-empty collection of values: nan if any is nan.
FMin(S) == IF NaN \in S THEN NaN ELSE CHOOSE m \in S : \A y \in S : FLe(m, y)
FMax(S) == IF NaN \in S THEN NaN ELSE CHOOSE m \in S : \A y \in S : FLe(y, m)

RECURSIVE ISqrt(_, _, _)
ISqrt(n, lo, hi) ==     \* the r in lo .. hi-1 with r*r <= n < (r+1)*(r+1)
    IF hi - lo <= 1 THEN lo
    ELSE LET mid == (lo + hi) \div 2
         IN  IF mid * mid <= n THEN ISqrt(n, mid, hi) ELSE ISqrt(n, lo, mid)

\* np.sqrt of a non-negative integer, rounded down to SqrtScale-ths (exact on squares).
FSqrt(n) == Norm(ISqrt(n * SqrtScale * SqrtScale, 0, SqrtScale * (n + 1)), SqrtScale)

(***************************************************************************)
(* numpy arrays.  A 2-D array is [shape |-> <<rows, cols>>, at |-> f] with *)
(* f defined on (0..rows-1) \X (0..cols-1); a 1-D array of length n is a   *)
(* function on 0..n-1.                                                     *)
(***************************************************************************)
Idx(shape) == (0 .. shape[1] - 1) \X (0 .. shape[2] - 1)
Arr(shape, f) == [shape |-> shape, at |-> f]
Size(shape) == shape[1] * shape[2]
Cells(A) == {A.at[p] : p \in Idx(A.shape)}

\* np.ndarray.flatten and np.reshape, both in row-major order.
Flatten(A) == [k \in 0 .. Size(A.shape) - 1 |-> A.at[<<k \div A.shape[2], k % A.shape[2]>>]]
Reshape(flat, shape) == Arr(shape, [p \in Idx(shape) |-> flat[p[1] * shape[2] + p[2]]])
Transpose(A) ==
    Arr(<<A.shape[2], A.shape[1]>>, [p \in Idx(<<A.shape[2], A.shape[1]>>) |-> A.at[<<p[2], p[1]>>]])

\* Broadcasting of two shapes; NoShape when numpy raises "operands could not be
\* broadcast together".
NoShape == <<>>
BDim(a, b) == IF a = b THEN a ELSE IF a = 1 THEN b ELSE IF b = 1 THEN a ELSE -1
BShape(s, t) ==
    IF s = NoShape \/ t = NoShape THEN NoShape
    ELSE IF BDim(s[1], t[1]) = -1 \/ BDim(s[2], t[2]) = -1 THEN NoShape
    ELSE <<BDim(s[1], t[1]), BDim(s[2], t[2])>>
BAt(A, p) == A.at[<<IF A.shape[1] = 1 THEN 0 ELSE p[1], IF A.shape[2] = 1 THEN 0 ELSE p[2]>>]
\* A * B and A + B, cell by cell, for arrays whose shapes broadcast.
MulArr(A, B) ==
    Arr(BShape(A.shape, B.shape),
        [p \in Idx(BShape(A.shape, B.shape)) |-> FMul(BAt(A, p), BAt(B, p))])
AddArr(A, B) ==
    Arr(BShape(A.shape, B.shape),
        [p \in Idx(BShape(A.shape, B.shape)) |-> FAdd(BAt(A, p), BAt(B, p))])

(***************************************************************************)
(* scale_2D(data, scale_range)                                             *)
(***************************************************************************)
\* A faulty variant: the maximum is taken before the shift, not after it.
scale_2D_max_before_shift(field, range) ==
    LET flat    == Flatten(field)
        K       == DOMAIN flat
        lo      == F(range[1])
        hi      == F(range[2])
        mn      == FMin({flat[k] : k \in K})
        mx      == FMax({flat[k] : k \in K})
        shifted == [k \in K |-> FAdd(flat[k], FNeg(mn))]
        divided == [k \in K |-> FDiv(shifted[k], FDiv(mx, FSub(hi, lo)))]
        added   == [k \in K |-> FAdd(divided[k], lo)]
    IN  Reshape(added, field.shape)

scale_2D(field, range) ==
    LET flat    == Flatten(field)                               \* a copy: the argument is not written
        K       == DOMAIN flat
        lo      == F(range[1])
        hi      == F(range[2])
        mn      == FMin({flat[k] : k \in K})
        shifted == [k \in K |-> FAdd(flat[k], FNeg(mn))]        \* data += -(np.min(data))
        mx      == FMax({shifted[k] : k \in K})                 \* np.max of the shifted data
        divided == [k \in K |-> FDiv(shifted[k], FDiv(mx, FSub(hi, lo)))]
        added   == [k \in K |-> FAdd(divided[k], lo)]           \* data += scale_range[0]
    IN  Reshape(added, field.shape)

(***************************************************************************)
(* The calls.                                                              *)
(***************************************************************************)
Runs == 1 .. 2      \* create_new_dataset is run twice from the same seed; other calls use run 1

IdleScale == data = None /\ scale_range = None
IdleNoise == dim_array = None /\ beta = None /\ u = None /\ v = None /\ S_f = None
IdleComp  == /\ input_image = None /\ background_image = None
             /\ x_offset = None /\ y_offset = None /\ center = None /\ radius = None
IdleDs    == /\ dataset = None /\ offsets = None /\ rotate = None /\ degree = None
             /\ i = None /\ new_dataset = None

FieldShapes == {s \in (1 .. MaxCells) \X (1 .. MaxCells) : Size(s) <= MaxCells}
FieldValues == {F(k) : k \in -1 .. MaxVal}
ScaleRanges == {<<0, 1>>, <<0, 255>>, <<-1, 2>>, <<2, 2>>}

InitScale ==
    /\ fn = "scale_2D"
    /\ \E sh \in FieldShapes : \E f \in [Idx(sh) -> FieldValues] :
           data = [shape |-> sh, at |-> f]
    /\ scale_range \in ScaleRanges
    /\ pc = [r \in Runs |-> IF r = 1 THEN "call" ELSE "done"]
    /\ exc = [r \in Runs |-> ""]
    /\ ret = [r \in Runs |-> None]
    /\ rng \in [Runs -> {0}]
    /\ IdleNoise /\ IdleComp /\ IdleDs

Scale ==
    /\ fn = "scale_2D" /\ pc[1] = "call"
    /\ ret' = [ret EXCEPT ![1] = scale_2D(data, scale_range)]
    /\ pc' = [pc EXCEPT ![1] = "done"]
    /\ UNCHANGED <<fn, exc, rng, scaleVars, noiseVars, compVars, dsVars>>

(***************************************************************************)
(* numpy's process-wide random source: a deterministic stream.  Its state  *)
(* is the seed plus the number of values drawn so far; the k-th value of   *)
(* the stream is a fixed function of k.                                    *)
(***************************************************************************)
StreamValue(state) == (state * 7 + 3) % 360

\* np.random.randint(low, high): one value of the stream, reduced to low .. high-1.
randint(state, low, high) ==
    [value |-> low + (StreamValue(state) % (high - low)), state |-> state + 1]

\* np.random.random(shape): Size(shape) values of the stream, kept as the block drawn.
random(state, shape) ==
    [value |-> [shape |-> shape, first |-> state], state |-> state + Size(shape)]

(***************************************************************************)
(* create_2D_noise(dim_array, beta)                                        *)
(***************************************************************************)
\* lines 46-48 and 54-56: concatenate((list_1, list_2)) / dim, a 1-D array.
FreqAxis(dim) ==
    LET n1 == dim \div 2 + 1                    \* len(range(0, floor(dim/2) + 1))
        first2 == -(((dim + 1) \div 2) - 1)     \* -int(ceil(dim/2) - 1)
        n2 == IF first2 < 0 THEN -first2 ELSE 0 \* len(range(first2, 0, 1))
    IN  [k \in 0 .. n1 + n2 - 1 |-> Norm(IF k < n1 THEN k ELSE first2 + (k - n1), dim)]

Len1(a) == Cardinality(DOMAIN a)

\* numpy.matlib.repmat(a, m, n) of a 1-D array a: a as a 1 x len(a) matrix, tiled m x n.
repmat(a, m, n) ==
    Arr(<<m, n * Len1(a)>>, [p \in Idx(<<m, n * Len1(a)>>) |-> a[p[2] % Len1(a)]])

\* line 50: np.reshape(repmat(u, 1, dim_array[1]), dim_array).T
FreqU(dim) == Transpose(Reshape(Flatten(repmat(FreqAxis(dim[1]), 1, dim[2])), dim))
\* line 58: np.reshape(repmat(v, dim_array[0], 1), dim_array)
FreqV(dim) == Reshape(Flatten(repmat(FreqAxis(dim[2]), dim[1], 1)), dim)

\* The shapes of u and v, without their entries.
UShape(dim) == <<dim[2], dim[1]>>
VShape(dim) == dim

\* np.power(x, beta/2) of a rational x >= 0, kept as the power it is; it is inf
\* exactly when x is 0 and the exponent negative.
Power(x, b) == [base |-> x, exp2 |-> b]
PowIsInf(c) == c.base = Zero /\ c.exp2 < 0
PowZero     == Power(Zero, 2)                   \* the value 0

\* np.power(u, 2) + np.power(v, 2)
SumOfSquares(A, B) == AddArr(MulArr(A, A), MulArr(B, B))

\* lines 62-64: the power spectrum with its infinities set to zero.
PowerSpectrum(U, V, b) ==
    LET f == SumOfSquares(U, V)
    IN  Arr(f.shape, [p \in Idx(f.shape) |-> IF PowIsInf(Power(f.at[p], b))
                                              THEN PowZero ELSE Power(f.at[p], b)])

\* The shape of the returned field, NoShape when the call raises.
NoiseShape(dim) == BShape(BShape(UShape(dim), VShape(dim)), dim)

Betas == {-2, -1, 0}

InitNoise ==
    /\ fn = "create_2D_noise"
    /\ dim_array \in (1 .. MaxDim) \X (1 .. MaxDim)
    /\ beta \in Betas
    /\ u = None /\ v = None /\ S_f = None
    /\ pc = [r \in Runs |-> IF r = 1 THEN "call" ELSE "done"]
    /\ exc = [r \in Runs |-> ""]
    /\ ret = [r \in Runs |-> None]
    /\ rng \in [Runs -> {0}]
    /\ IdleScale /\ IdleComp /\ IdleDs

Noise ==
    /\ fn = "create_2D_noise" /\ pc[1] = "call"
    /\ u' = FreqU(dim_array)
    /\ v' = FreqV(dim_array)
    /\ IF BShape(u'.shape, v'.shape) = NoShape
       THEN \* line 62: the sum of the two fields cannot be broadcast
            /\ S_f' = None /\ ret' = ret
            /\ pc' = [pc EXCEPT ![1] = "raised"]
            /\ exc' = [exc EXCEPT ![1] = "ValueError"]
            /\ rng' = rng
       ELSE LET phi == random(rng[1], dim_array)
            IN  /\ S_f' = PowerSpectrum(u', v', beta)
                /\ rng' = [rng EXCEPT ![1] = phi.state]
                \* line 71-74: the real part of ifft2(sqrt(S_f) * exp(2 pi i phi))
                /\ ret' = [ret EXCEPT ![1] = [shape |-> BShape(S_f'.shape, phi.value.shape),
                                              spectrum |-> S_f', phase |-> phi.value]]
                /\ pc' = [pc EXCEPT ![1] = "done"]
                /\ exc' = exc
    /\ UNCHANGED <<fn, dim_array, beta, scaleVars, compVars, dsVars>>

(***************************************************************************)
(* create_composition(input_image, background_image, x_offset, y_offset,   *)
(*                    center, radius)                                      *)
(***************************************************************************)
Min2(a, b) == IF a < b THEN a ELSE b

\* lines 105-108: the defaults of center and radius.
CenterOf(img, c) == IF c = Unset THEN <<img.shape[1] \div 2, img.shape[2] \div 2>> ELSE c
RadiusOf(img, c, rd) ==
    IF rd = Unset
    THEN LET ctr == CenterOf(img, c)
         IN  Min2(Min2(ctr[1], ctr[2]),
                  Min2(img.shape[1] - ctr[1], img.shape[2] - ctr[2]))
    ELSE rd[1]

\* The square of the distance of cell (Y, X) of the h x w grid from the center.
Dist2(ctr, Y, X) == (X - ctr[1]) * (X - ctr[1]) + (Y - ctr[2]) * (Y - ctr[2])

\* lines 110-111: np.ogrid[:h, :w] and the distance field, of shape (h, w).
DistFromCenter(img, ctr) ==
    Arr(<<img.shape[2], img.shape[1]>>,
        [p \in Idx(<<img.shape[2], img.shape[1]>>) |-> FSqrt(Dist2(ctr, p[1], p[2]))])

\* line 113: mask = dist_from_center <= radius
DiskMask(dist, rd) == Arr(dist.shape, [p \in Idx(dist.shape) |-> FLe(dist.at[p], F(rd))])

\* np.ma.array(data, mask=m): a mask of another shape and the same size is reshaped.
FitMask(m, shape) == Reshape(Flatten(m), shape)

\* lines 121-124: the distances with every cell of the disk set to radius.
OutMaskFull(dist, rd) ==
    Arr(dist.shape, [p \in Idx(dist.shape) |-> IF FLe(dist.at[p], F(rd)) THEN F(rd)
                                                ELSE dist.at[p]])

\* The length of the slice start : start+len of an axis of length extent (start >= 0).
SliceLen(start, len, extent) == Min2(start + len, extent) - Min2(start, extent)

\* lines 129 and 134: background_image[y_offset:y_offset+w, x_offset:x_offset+h];
\* the first row and column of the region.
\* (PatchOriginSwapped is a faulty variant: the two offsets exchanged.)
PatchOriginSwapped(xo, yo) == <<xo, yo>>
PatchOrigin(xo, yo) == <<yo, xo>>

SlotShape(bgShape, xo, yo, w, h) ==
    <<SliceLen(PatchOrigin(xo, yo)[1], w, bgShape[1]),
      SliceLen(PatchOrigin(xo, yo)[2], h, bgShape[2])>>

\* line 134: an array of shape s can be assigned to a region of shape t when each of
\* its dimensions is that of the region, or 1.
\* (CanAssignCropping is a faulty variant: a larger array is cropped to the region.)
CanAssignCropping(t, s) == TRUE
CanAssign(t, s) == \A k \in 1 .. 2 : s[k] = t[k] \/ s[k] = 1

\* The outcome of the call: the exception it raises ("" when it returns) and the
\* content of background_image afterwards.
create_composition(img, bg, xo, yo, c, rd) ==
    LET w      == img.shape[1]
        h      == img.shape[2]
        ctr    == CenterOf(img, c)
        rad    == RadiusOf(img, c, rd)
        dist   == DistFromCenter(img, ctr)
        mask   == DiskMask(dist, rad)
        \* circle_image: input_image with the cells outside the disk masked
        circle_mask == FitMask(Arr(mask.shape, [p \in Idx(mask.shape) |-> ~mask.at[p]]), img.shape)
        \* out_image: the data of a masked array is all of input_image
        out_image   == img
        fade   == scale_2D(OutMaskFull(dist, rad), <<0, 1>>)
        org    == PatchOrigin(xo, yo)
        slot   == SlotShape(bg.shape, xo, yo, w, h)
        background_offset == Arr(slot, [p \in Idx(slot) |-> bg.at[<<org[1] + p[1], org[2] + p[2]>>]])
        s1     == BShape(slot, fade.shape)
        s2     == BShape(s1, img.shape)
        product == MulArr(background_offset, fade)
        background_fade == AddArr(product, out_image)
        \* line 132: ndarray + masked array; where masked, the data of the sum is
        \* that of the first operand
        new_input_image ==
            Arr(s2, [p \in Idx(s2) |-> IF BAt(circle_mask, p)
                                        THEN background_fade.at[p]
                                        ELSE FAdd(background_fade.at[p], BAt(img, p))])
    IN  IF s1 = NoShape \/ s2 = NoShape
        THEN [exc |-> "ValueError", bg |-> bg]          \* line 131
        ELSE IF ~CanAssign(slot, s2)
        THEN [exc |-> "ValueError", bg |-> bg]          \* line 134
        ELSE [exc |-> "",
              bg  |-> Arr(bg.shape, [p \in Idx(bg.shape) |->
                        IF <<p[1] - org[1], p[2] - org[2]>> \in Idx(slot)
                        THEN BAt(new_input_image, <<p[1] - org[1], p[2] - org[2]>>)
                        ELSE bg.at[p]])]

\* Whether the call raises, from the shapes alone.
CompositionRaises(imgShape, bgShape, xo, yo) ==
    LET slot == SlotShape(bgShape, xo, yo, imgShape[1], imgShape[2])
        s2   == BShape(BShape(slot, <<imgShape[2], imgShape[1]>>), imgShape)
    IN  s2 = NoShape \/ ~CanAssign(slot, s2)

Fills   == {<<0, 10>>, <<1, -3>>}
Centers == {Unset, <<0, 0>>}

InitComp ==
    /\ fn = "create_composition"
    /\ \E sh \in (1 .. MaxSide) \X (1 .. MaxSide), bs \in (MaxBg - 1 .. MaxBg) \X (MaxBg - 1 .. MaxBg),
          fill \in Fills :
          /\ input_image = Arr(sh, [p \in Idx(sh) |-> F(fill[1] + p[1] * sh[2] + p[2])])
          /\ background_image = Arr(bs, [p \in Idx(bs) |-> F(fill[2] * (1 + p[1] * bs[2] + p[2]))])
    /\ x_offset \in 0 .. MaxOffset
    /\ y_offset \in 0 .. MaxOffset
    /\ center \in Centers
    /\ radius \in {Unset} \cup {<<rd>> : rd \in 0 .. MaxRadius}
    /\ pc = [r \in Runs |-> IF r = 1 THEN "call" ELSE "done"]
    /\ exc = [r \in Runs |-> ""]
    /\ ret = [r \in Runs |-> None]
    /\ rng \in [Runs -> {0}]
    /\ IdleScale /\ IdleNoise /\ IdleDs

Compose ==
    /\ fn = "create_composition" /\ pc[1] = "call"
    /\ LET out == create_composition(input_image, background_image, x_offset, y_offset,
                                     center, radius)
       IN  /\ background_image' = out.bg
           /\ exc' = [exc EXCEPT ![1] = out.exc]
           /\ pc' = [pc EXCEPT ![1] = IF out.exc = "" THEN "done" ELSE "raised"]
           \* line 136: the object passed in is what is returned
           /\ ret' = IF out.exc = "" THEN [ret EXCEPT ![1] = [object |-> "background_image"]]
                     ELSE ret
    /\ UNCHANGED <<fn, rng, input_image, x_offset, y_offset, center, radius,
                   scaleVars, noiseVars, dsVars>>

(***************************************************************************)
(* rotate_image(image, angle) and create_new_dataset(dataset, offsets,     *)
(* rotate, degree).  The rows of dataset and the frames are kept as what   *)
(* they are made of (which input row, which block of the random stream,    *)
(* which offset), the shapes as they are.                                  *)
(***************************************************************************)
DefaultDim == 56        \* create_2D_noise's default dim_array is (56, 56)

\* line 172: the parameters of rotate_image; line 157: the keyword the call passes.
RotateImageParams == {"image", "angle"}
RotateCallKeywords == {"rot"}

\* lines 177-180: the angle is drawn when unset; the image comes back rotated by it.
rotate_image(image, angle, state) ==
    LET draw == randint(state, 0, 360)
    IN  IF angle = Unset
        THEN [value |-> [rotated |-> image, angle |-> draw.value], state |-> draw.state]
        ELSE [value |-> [rotated |-> image, angle |-> angle[1]], state |-> state]

\* One iteration of the loop (lines 155-167) for row k, the random source in `state`:
\* the exception raised ("" when none), the row stored and the random source afterwards.
BuildRowOutcome(ds, offs, rot, deg, k, state) ==
    LET n       == ds.shape[2]
        im_x    == ISqrt(n, 0, n + 1)                           \* int(np.sqrt(n))
        image   == [row |-> k, shape |-> <<im_x, im_x>>]
        bindOk  == RotateCallKeywords \subseteq RotateImageParams
        rotated == IF rot THEN rotate_image(image, deg, state)
                   ELSE [value |-> image, state |-> state]
        bgShape == NoiseShape(<<DefaultDim, DefaultDim>>)
        phi     == random(rotated.state, <<DefaultDim, DefaultDim>>)
        pick    == randint(phi.state, 0, Len(offs))
        off     == offs[pick.value + 1]
        frame   == [image |-> rotated.value, phase |-> phi.value, offset |-> off]
    IN  IF im_x * im_x # n
        THEN [exc |-> "ValueError", row |-> None, state |-> state]          \* line 155
        ELSE IF rot /\ ~bindOk
        THEN [exc |-> "TypeError", row |-> None, state |-> state]           \* line 157
        ELSE IF bgShape = NoShape
        THEN [exc |-> "ValueError", row |-> None, state |-> rotated.state]  \* line 158
        ELSE IF CompositionRaises(<<im_x, im_x>>, bgShape, off[1], off[2])
        THEN [exc |-> "ValueError", row |-> None, state |-> pick.state]     \* line 162
        ELSE IF Size(bgShape) # 4 * n /\ Size(bgShape) # 1
        THEN [exc |-> "ValueError", row |-> None, state |-> pick.state]     \* line 167
        ELSE [exc |-> "", row |-> frame, state |-> pick.state]

ImageSides  == (1 .. MaxImX) \cup {28}
RowLengths  == {s * s : s \in ImageSides} \cup {2}
OffsetLists == { <<<<0, 0>>>>, <<<<0, 0>>, <<28, 28>>>>, <<<<0, 0>>, <<29, 0>>>> }

InitDataset ==
    /\ fn = "create_new_dataset"
    /\ \E m \in 0 .. MaxRows, n \in RowLengths : dataset = [shape |-> <<m, n>>]
    /\ offsets \in OffsetLists
    /\ rotate \in BOOLEAN
    /\ degree \in {Unset, <<1>>}
    /\ i = [r \in Runs |-> None]
    /\ new_dataset = [r \in Runs |-> None]
    /\ pc = [r \in Runs |-> "call"]
    /\ exc = [r \in Runs |-> ""]
    /\ ret = [r \in Runs |-> None]
    /\ \E seed \in 0 .. MaxSeed : rng = [r \in Runs |-> seed]
    /\ IdleScale /\ IdleNoise /\ IdleComp

\* lines 148-152: new_dataset = np.zeros((m, n*4)), and the loop starts.
Enter(r) ==
    /\ fn = "create_new_dataset" /\ pc[r] = "call"
    /\ i' = [i EXCEPT ![r] = 0]
    /\ new_dataset' = [new_dataset EXCEPT ![r] =
                         [shape |-> <<dataset.shape[1], dataset.shape[2] * 4>>,
                          rows  |-> [k \in 0 .. dataset.shape[1] - 1 |-> "zeros"]]]
    /\ pc' = [pc EXCEPT ![r] = "loop"]
    /\ UNCHANGED <<fn, exc, ret, rng, dataset, offsets, rotate, degree,
                   scaleVars, noiseVars, compVars>>

\* A faulty variant of the iteration below: its draws start from a source that the
\* seed does not determine.
BuildRowUnseeded(r) ==
    /\ fn = "create_new_dataset" /\ pc[r] = "loop" /\ i[r] < dataset.shape[1]
    /\ \E entropy \in 0 .. 1 :
       LET out == BuildRowOutcome(dataset, offsets, rotate, degree, i[r], rng[r] + entropy)
       IN  /\ rng' = [rng EXCEPT ![r] = out.state]
           /\ IF out.exc = ""
              THEN /\ new_dataset' = [new_dataset EXCEPT ![r].rows[i[r]] = out.row]
                   /\ i' = [i EXCEPT ![r] = @ + 1]
                   /\ UNCHANGED <<pc, exc>>
              ELSE /\ pc' = [pc EXCEPT ![r] = "raised"]
                   /\ exc' = [exc EXCEPT ![r] = out.exc]
                   /\ UNCHANGED <<i, new_dataset>>
    /\ UNCHANGED <<fn, ret, dataset, offsets, rotate, degree, scaleVars, noiseVars, compVars>>

\* lines 154-167: one iteration of the loop.
BuildRow(r) ==
    /\ fn = "create_new_dataset" /\ pc[r] = "loop" /\ i[r] < dataset.shape[1]
    /\ LET out == BuildRowOutcome(dataset, offsets, rotate, degree, i[r], rng[r])
       IN  /\ rng' = [rng EXCEPT ![r] = out.state]
           /\ IF out.exc = ""
              THEN /\ new_dataset' = [new_dataset EXCEPT ![r].rows[i[r]] = out.row]
                   /\ i' = [i EXCEPT ![r] = @ + 1]
                   /\ UNCHANGED <<pc, exc>>
              ELSE /\ pc' = [pc EXCEPT ![r] = "raised"]
                   /\ exc' = [exc EXCEPT ![r] = out.exc]
                   /\ UNCHANGED <<i, new_dataset>>
    /\ UNCHANGED <<fn, ret, dataset, offsets, rotate, degree, scaleVars, noiseVars, compVars>>

\* line 169: return new_dataset
Return(r) ==
    /\ fn = "create_new_dataset" /\ pc[r] = "loop" /\ i[r] = dataset.shape[1]
    /\ ret' = [ret EXCEPT ![r] = new_dataset[r]]
    /\ pc' = [pc EXCEPT ![r] = "done"]
    /\ UNCHANGED <<fn, exc, rng, dsVars, scaleVars, noiseVars, compVars>>

Init == InitScale \/ InitNoise \/ InitComp \/ InitDataset

Next ==
    \/ Scale
    \/ Noise
    \/ Compose
    \/ \E r \in Runs : Enter(r)
    \/ \E r \in Runs : BuildRow(r)
    \/ \E r \in Runs : Return(r)

Spec == Init /\ [][Next]_vars

(***************************************************************************)
(* The properties.                                                         *)
(***************************************************************************)
Ended(r) == pc[r] \in {"done", "raised"}

\* ---- scale_2D ----
NonConstant(A) == Cardinality(Cells(A)) > 1

\* (x - min) * (hi - lo) / (max - min) + lo
AffineImage(x, mn, mx, lo, hi) == FAdd(FDiv(FMul(FSub(x, mn), FSub(hi, lo)), FSub(mx, mn)), lo)

\* C6: for a non-constant field and lo < hi, scale_2D returns a field of the same
\* shape whose every cell is the affine image (x - min) * (hi - lo) / (max - min) + lo
\* of the input cell: lo where the input has its minimum, hi where it has its
\* maximum, and every value within [lo, hi].
C6_ScaleIsAffine ==
    (fn = "scale_2D" /\ pc[1] = "done" /\ NonConstant(data) /\ scale_range[1] < scale_range[2]) =>
        LET mn == FMin(Cells(data))
            mx == FMax(Cells(data))
            lo == F(scale_range[1])
            hi == F(scale_range[2])
        IN  /\ ret[1].shape = data.shape
            /\ \A p \in Idx(data.shape) :
                /\ ret[1].at[p] = AffineImage(data.at[p], mn, mx, lo, hi)
                /\ data.at[p] = mn => ret[1].at[p] = lo
                /\ data.at[p] = mx => ret[1].at[p] = hi
                /\ FLe(lo, ret[1].at[p]) /\ FLe(ret[1].at[p], hi)

\* A non-constant field with a non-zero minimum was scaled to (lo, hi), lo < hi, and
\* some cell lies strictly between lo and hi.
C6_Witness ==
    /\ fn = "scale_2D" /\ pc[1] = "done" /\ NonConstant(data)
    /\ scale_range[1] < scale_range[2]
    /\ FMin(Cells(data)) # Zero
    /\ \E p \in Idx(data.shape) :
          FLt(F(scale_range[1]), ret[1].at[p]) /\ FLt(ret[1].at[p], F(scale_range[2]))

\* ---- create_2D_noise ----
\* Entry k of the frequency axis of length dim, as the specification gives it.
ClaimedFrequency(dim, k) == IF k <= dim \div 2 THEN Norm(k, dim) ELSE Norm(k - dim, dim)

\* C5: for every dim_array = (rows, cols), rows # cols included, the call returns;
\* u and v both have shape (rows, cols), u[i][j] is the row axis' entry i and
\* v[i][j] the column axis' entry j, and the returned field has shape (rows, cols).
C5_NoiseShape ==
    (fn = "create_2D_noise" /\ Ended(1)) =>
        /\ pc[1] = "done"
        /\ u.shape = dim_array /\ v.shape = dim_array
        /\ \A p \in Idx(u.shape) : u.at[p] = FreqAxis(dim_array[1])[p[1]]
        /\ \A p \in Idx(v.shape) : v.at[p] = FreqAxis(dim_array[2])[p[2]]
        /\ ret[1].shape = dim_array

\* C10: each frequency axis has exactly dim entries, entry k being k/dim up to
\* floor(dim/2) and (k - dim)/dim after it, so that u^2 + v^2 is zero at cell (0,0)
\* only and the clamp of the infinities alters no other cell.
C10_FrequencyAxis ==
    (fn = "create_2D_noise" /\ Ended(1)) =>
        /\ \A d \in {dim_array[1], dim_array[2]} :
              /\ Len1(FreqAxis(d)) = d
              /\ \A k \in 0 .. d - 1 : FreqAxis(d)[k] = ClaimedFrequency(d, k)
        /\ pc[1] = "done" =>
              /\ {p \in Idx(BShape(u.shape, v.shape)) : SumOfSquares(u, v).at[p] = Zero} = {<<0, 0>>}
              /\ {p \in Idx(S_f.shape) : S_f.at[p] = PowZero} \subseteq {<<0, 0>>}

\* ---- create_composition ----
ImgW == input_image.shape[1]
ImgH == input_image.shape[2]
Square == ImgW = ImgH
InBounds ==
    /\ y_offset + ImgW <= background_image.shape[1]
    /\ x_offset + ImgH <= background_image.shape[2]
\* The cells of background_image in rows y_offset .. y_offset+w-1 and columns
\* x_offset .. x_offset+h-1.
InPatch(p) ==
    /\ y_offset <= p[1] /\ p[1] < y_offset + ImgW
    /\ x_offset <= p[2] /\ p[2] < x_offset + ImgH
EffCenter == CenterOf(input_image, center)
EffRadius == RadiusOf(input_image, center, radius)
\* The image cell in row r, column k is at grid position Y = r, X = k.
StrictlyInside(r, k) == Dist2(EffCenter, r, k) < EffRadius * EffRadius
InsideOrOn(r, k)     == Dist2(EffCenter, r, k) <= EffRadius * EffRadius

\* C2: after a call that placed a square image fully inside the background, every
\* patch cell strictly inside the disk holds exactly the input image's value there.
\* (Stated for the calls whose disk leaves some cell of the image outside, where the
\* fade field is defined; the calls whose disk covers the image are C3's.)
C2_InsideDiskIsInput ==
    (/\ fn = "create_composition" /\ pc[1] = "done" /\ Square /\ InBounds
     /\ \E q \in Idx(input_image.shape) : ~InsideOrOn(q[1], q[2])) =>
        \A p \in Idx(input_image.shape) :
            StrictlyInside(p[1], p[2]) =>
                background_image.at[<<y_offset + p[1], x_offset + p[2]>>] = input_image.at[p]

\* C3: when the disk covers every cell of the image, the region of the returned
\* background at the offset equals the image cell for cell, with no nan in it.
C3_CoveringDiskPastesInput ==
    (/\ fn = "create_composition" /\ pc[1] = "done" /\ InBounds
     /\ \A p \in Idx(input_image.shape) : InsideOrOn(p[1], p[2])) =>
        \A p \in Idx(input_image.shape) :
            LET cell == background_image.at[<<y_offset + p[1], x_offset + p[2]>>]
            IN  cell # NaN /\ cell = input_image.at[p]

OutOfBounds == ~InBounds

\* C7: whenever an offset plus the image's extent exceeds the background's extent,
\* the call ends in a dimension-mismatch failure, for every image size.
C7_OutOfBoundsRaises ==
    (fn = "create_composition" /\ Ended(1) /\ OutOfBounds) =>
        pc[1] = "raised" /\ exc[1] = "ValueError"

\* C7 as amended: out of bounds, the call of an image other than 1x1 ends in a
\* ValueError and leaves the background as it was; the call of a 1x1 image returns
\* and has written nothing.
C7_OutOfBoundsRaisesUnless1x1 ==
    [][(fn = "create_composition" /\ OutOfBounds) =>
          /\ background_image' = background_image
          /\ IF input_image.shape = <<1, 1>>
             THEN pc'[1] = "done"
             ELSE pc'[1] = "raised" /\ exc'[1] = "ValueError"]_vars

\* The call of a 2x2 image reaching one row past the background has raised.
C7_Witness ==
    /\ fn = "create_composition" /\ pc[1] = "raised" /\ exc[1] = "ValueError"
    /\ input_image.shape = <<2, 2>>
    /\ y_offset + ImgW = background_image.shape[1] + 1
    /\ x_offset + ImgH <= background_image.shape[2]

\* C8: the call returns the background_image object it was given; it changes no
\* cell of it outside rows y_offset .. y_offset+w-1 and columns x_offset ..
\* x_offset+h-1, does not change its shape, and leaves input_image as it was.
C8_WritesOnlyThePatch ==
    [][fn = "create_composition" =>
          /\ input_image' = input_image
          /\ background_image'.shape = background_image.shape
          /\ \A p \in Idx(background_image.shape) :
                ~InPatch(p) => background_image'.at[p] = background_image.at[p]
          /\ pc'[1] = "done" => ret'[1] = [object |-> "background_image"]]_vars

\* A call has returned that wrote a square patch, at an offset with x_offset #
\* y_offset, into a background larger than the patch: the cell at the disk's
\* center holds a value made from the image.
C8_Witness ==
    /\ fn = "create_composition" /\ pc[1] = "done" /\ InBounds
    /\ Square /\ ImgW = 2 /\ center = Unset /\ radius = Unset
    /\ x_offset # y_offset
    /\ background_image.shape = <<MaxBg, MaxBg>>
    /\ background_image.at[<<y_offset + 1, x_offset + 1>>]
          = FAdd(input_image.at[<<1, 1>>], input_image.at[<<1, 1>>])

\* ---- create_new_dataset ----
DsM == dataset.shape[1]
DsN == dataset.shape[2]
ImX == ISqrt(DsN, 0, DsN + 1)
PerfectSquare == ImX * ImX = DsN
OffsetsInside ==
    \A k \in 1 .. Len(offsets) :
        offsets[k][1] + ImX <= DefaultDim /\ offsets[k][2] + ImX <= DefaultDim

\* C1: for a dataset of shape (M, N), N a perfect square of any side, and offsets
\* that keep the image inside the background, the call returns an array of M rows
\* of length 4N, row k holding the frame composed from input row k.
C1_DatasetShape ==
    (/\ fn = "create_new_dataset" /\ Ended(1)
     /\ rotate = FALSE /\ PerfectSquare /\ OffsetsInside) =>
        /\ pc[1] = "done"
        /\ ret[1].shape = <<DsM, 4 * DsN>>
        /\ \A k \in 0 .. DsM - 1 : ret[1].rows[k] # "zeros" /\ ret[1].rows[k].image.row = k

\* C4: with rotate enabled each row's image is rotated before composition, by
\* degree*90 when degree is given and by a drawn angle in 0 .. 359 otherwise, and the
\* call returns the dataset as without rotation.
C4_RotateCompletes ==
    (/\ fn = "create_new_dataset" /\ Ended(1)
     /\ rotate = TRUE /\ DsN = 28 * 28 /\ OffsetsInside) =>
        /\ pc[1] = "done"
        /\ ret[1].shape = <<DsM, 4 * DsN>>
        /\ \A k \in 0 .. DsM - 1 :
              /\ ret[1].rows[k] # "zeros"
              /\ ret[1].rows[k].image.rotated.row = k
              /\ IF degree = Unset THEN ret[1].rows[k].image.angle \in 0 .. 359
                 ELSE ret[1].rows[k].image.angle = degree[1] * 90

====
